---- MODULE Spec2Model ----
(***************************************************************************)
(* Tenant report pipeline of kuma_assets_all.                              *)
(*                                                                         *)
(* Two near-identical pipelines are modelled side by side:                 *)
(*   variant = "navigation" : src/unnamed/part_000                         *)
(*                            (data parsing_with_navigation.py)            *)
(*   variant = "temp"       : src/temp.py                                  *)
(* plus the sheet naming of src/parsed.py (merge_and_export_to_xlsx) and   *)
(* the list-field normalizers of src/data_parsing.py (variant              *)
(* "data_parsing", used by the field harness only).                        *)
(*                                                                         *)
(* Specifications: Spec and SpecNames run process_data on valid inputs,    *)
(* SpecScript runs the script from its __main__ block with files, columns  *)
(* and hardware rows varying; SpecClean, SpecOs and SpecFields call one    *)
(* pure function.                                                          *)
(*                                                                         *)
(* Text is a sequence of one-character strings.  The value NaN stands for  *)
(* a missing cell (pandas NaN / Python None as seen by pd.isna); it is a   *)
(* one-element sequence whose element is not a character, so no text       *)
(* equals it.                                                              *)
(***************************************************************************)
EXTENDS Integers, Sequences, FiniteSets, TLC

VARIABLES variant,        \* which pipeline file runs
          pc,             \* position inside process_data / the call harness
          all_data,       \* inventory table: sequence of rows
          devices_report, \* hardware table: sequence of rows
          merged_data,    \* merged, cleaned table
          tenants,        \* list of cleaned tenant names (process_data)
          ti,             \* index of the next tenant of the render loop
          wb,             \* workbook: sequence of sheets, leftmost first
          saved,          \* the workbook as written by wb.save, <<>> before
          arg,            \* argument of the pure function under call
          ret,            \* its result
          env,            \* the input files present and the columns they hold
          error,          \* the exception raised by the run, or NoError
          stdout,         \* the diagnostics printed by the except handlers
          status          \* exit status of the script, "running" before

vars == <<variant, pc, all_data, devices_report, merged_data, tenants, ti,
          wb, saved, arg, ret, env, error, stdout, status>>

Variants == {"navigation", "temp"}

NaN == <<"NaN">>

(* the two input files of the __main__ block, the columns process_data
   requires of the hardware table, and an environment that has them all *)
InputFiles == {"all_data_combined", "devices_report"}

required_columns == {"fqdn", "Network Cards", "CPU", "RAM", "Disk Space"}

ValidEnv == [files |-> InputFiles, hw_columns |-> required_columns,
             tenantName |-> TRUE]

NoError == [type |-> "none", names |-> {}]

(* nothing of the script layer has happened *)
Quiet == /\ error = NoError
         /\ stdout = <<>>
         /\ status = "running"

----------------------------------------------------------------------------
(* Bounds of the model *)

MaxLen == 6          \* longest text handed to clean_tenant_name on its own
MaxDevices == 2      \* rows of the inventory table
MaxItems == 2        \* entries of one software list
MaxOsLen == 3        \* longest free text of the os column

(* Program constants *)

PrefixLen == 25      \* clean_name[:25]
TitleLimit == 31     \* str(tenant)[:31]

----------------------------------------------------------------------------
(* Text helpers: Python str methods *)

Min(S) == CHOOSE x \in S : \A y \in S : x <= y
Max(S) == CHOOSE x \in S : \A y \in S : x >= y

IsSpace(c) == c \in {" ", "\n"}

RECURSIVE lstrip(_)
lstrip(s) == IF s # <<>> /\ IsSpace(Head(s)) THEN lstrip(Tail(s)) ELSE s

RECURSIVE rstrip(_)
rstrip(s) == IF s # <<>> /\ IsSpace(s[Len(s)])
             THEN rstrip(SubSeq(s, 1, Len(s) - 1)) ELSE s

strip(s) == rstrip(lstrip(s))

(* s.split(): the maximal runs of non-whitespace characters *)
RECURSIVE split(_)
split(s) ==
    LET t == lstrip(s) IN
    IF t = <<>> THEN <<>>
    ELSE LET stops == {i \in 1..Len(t) : IsSpace(t[i])}
             n == IF stops = {} THEN Len(t) ELSE Min(stops) - 1
         IN <<SubSeq(t, 1, n)>> \o split(SubSeq(t, n + 1, Len(t)))

(* ' '.join(words) *)
RECURSIVE join(_)
join(words) ==
    IF words = <<>> THEN <<>>
    ELSE IF Len(words) = 1 THEN words[1]
    ELSE words[1] \o <<" ">> \o join(Tail(words))

(* s[:n] *)
Slice(s, n) == SubSeq(s, 1, IF Len(s) < n THEN Len(s) ELSE n)

(* re.sub(r'\[.*?\]', '', s): leftmost match first, the shortest span from a
   "[" to a "]" with no newline in between ('.' does not match a newline). *)
Closers(s, i) == {j \in (i + 1)..Len(s) :
                    /\ s[j] = "]"
                    /\ \A k \in (i + 1)..(j - 1) : s[k] # "\n"}

RECURSIVE re_sub_from(_, _)
re_sub_from(s, i) ==
    IF i > Len(s) THEN <<>>
    ELSE IF s[i] = "[" /\ Closers(s, i) # {}
         THEN re_sub_from(s, Min(Closers(s, i)) + 1)
         ELSE <<s[i]>> \o re_sub_from(s, i + 1)

re_sub_brackets(s) == re_sub_from(s, 1)

----------------------------------------------------------------------------
(* clean_tenant_name *)

clean_tenant_name_navigation(tenant_name) ==
    IF tenant_name = NaN THEN NaN
    ELSE strip(join(split(re_sub_brackets(tenant_name))))

clean_tenant_name_temp(tenant_name) ==
    IF tenant_name = NaN THEN NaN
    ELSE strip(re_sub_brackets(tenant_name))

clean_tenant_name(v, tenant_name) ==
    IF v = "navigation" THEN clean_tenant_name_navigation(tenant_name)
    ELSE clean_tenant_name_temp(tenant_name)

----------------------------------------------------------------------------
(* Call harness for clean_tenant_name: the argument is drawn from every text
   of at most MaxLen characters over Alphabet. *)

Alphabet == {"a", " ", "[", "]", "\n"}

Texts(n) == UNION {[1..k -> Alphabet] : k \in 0..n}

Idle == /\ all_data = <<>>
        /\ devices_report = <<>>
        /\ merged_data = <<>>
        /\ tenants = <<>>
        /\ ti = 0
        /\ wb = <<>>
        /\ saved = <<>>
        /\ env = ValidEnv
        /\ Quiet

InitClean == /\ variant \in Variants
             /\ pc = "call"
             /\ arg \in Texts(MaxLen) \cup {NaN}
             /\ ret = NaN
             /\ Idle

CallClean == /\ pc = "call"
             /\ ret' = clean_tenant_name(variant, arg)
             /\ pc' = "returned"
             /\ UNCHANGED <<variant, all_data, devices_report, merged_data,
                            tenants, ti, wb, saved, arg>>
             /\ UNCHANGED <<env, error, stdout, status>>

NextClean == CallClean

SpecClean == InitClean /\ [][NextClean]_vars

(* The reading of "every [...] span removed, whitespace collapsed, trimmed":
   a span runs from a "[" to the next "]", whatever lies between. *)
RECURSIVE StripSpans(_)
StripSpans(s) ==
    IF s = <<>> THEN <<>>
    ELSE LET closing == {j \in 2..Len(s) : s[j] = "]"} IN
         IF Head(s) = "[" /\ closing # {}
         THEN StripSpans(SubSeq(s, Min(closing) + 1, Len(s)))
         ELSE <<Head(s)>> \o StripSpans(Tail(s))

RECURSIVE Collapse(_)
Collapse(s) ==
    IF s = <<>> THEN <<>>
    ELSE IF IsSpace(Head(s))
         THEN IF \A i \in 1..Len(s) : IsSpace(s[i]) THEN <<>>
              ELSE IF IsSpace(s[2]) THEN Collapse(Tail(s))
              ELSE <<" ">> \o Collapse(Tail(s))
         ELSE <<Head(s)>> \o Collapse(Tail(s))

Trim(s) == IF s # <<>> /\ Head(s) = " " THEN Tail(s) ELSE s

(* C7: for every non-null tenant name, clean_tenant_name returns the name
   with every [...] span removed, every whitespace run collapsed to one
   space, and no leading or trailing whitespace. *)
C7_CleanedAsSpecified ==
    (pc = "returned" /\ arg # NaN) => ret = Trim(Collapse(StripSpans(arg)))

----------------------------------------------------------------------------
(* Cells of the software / vulnerabilities columns.

   A cell is [syn, dec]: syn tells which decoder accepts the cell's text and
   dec is the Python value that decoder yields.
     syn = "nan"      missing cell
     syn = "empty"    the empty string
     syn = "json"     text json.loads accepts
     syn = "pylit"    text only ast.literal_eval accepts (single quotes, None)
     syn = "garbage"  text neither decoder accepts
   A decoded value is [t, items]: t = "list" with its elements, or
   t = "other" (a mapping, number or string at top level).  An element is
   [t, f]: t = "dict" with f its key -> value function, or t = "scalar". *)

SoftwareFields == <<"name", "version", "vendor">>

VulnFields == <<"kasperskyID", "productName", "descriptionURL",
                "recommendedMajorPatch", "recommendedMinorPatch",
                "severityStr", "severity", "cve", "exploitExists",
                "malwareExists">>

Range(f) == {f[i] : i \in DOMAIN f}

NoValue == [t |-> "other", items |-> <<>>]
NanCell == [syn |-> "nan", dec |-> NoValue]
EmptyCell == [syn |-> "empty", dec |-> NoValue]
GarbageCell == [syn |-> "garbage", dec |-> NoValue]
ListCell(syn, items) == [syn |-> syn, dec |-> [t |-> "list", items |-> items]]
Dict(f) == [t |-> "dict", f |-> f]
Scalar == [t |-> "scalar", f |-> <<>>]

(* a cell holding a number, the text of a JSON mapping, and a JSON text
   nested deeper than the interpreter's recursion limit, on which
   json.loads raises RecursionError *)
NumberCell == [syn |-> "number", dec |-> NoValue]
MappingCell == [syn |-> "json", dec |-> [t |-> "dict", items |-> <<>>]]
DeepCell == [syn |-> "deep", dec |-> NoValue]

(* str(x): the text of a value; str(None) is the text None *)
py_str(x) == IF x = NaN THEN <<"N", "o", "n", "e">> ELSE x

(* str(item.get(k, '')).strip() or None *)
sub_field(item, k) ==
    LET raw == IF k \in DOMAIN item.f THEN item.f[k] ELSE <<>>
        txt == strip(py_str(raw))
    IN IF txt = <<>> THEN NaN ELSE txt

(* the two decode stages: json.loads, then ast.literal_eval *)
decodes(cell) == cell.syn \in {"json", "pylit"}

RECURSIVE keep_dicts(_, _)
keep_dicts(items, fields) ==
    IF items = <<>> THEN <<>>
    ELSE IF Head(items).t = "dict"
         THEN <<[k \in Range(fields) |-> sub_field(Head(items), k)]>>
              \o keep_dicts(Tail(items), fields)
         ELSE keep_dicts(Tail(items), fields)

(* parse_software_data / parse_vulnerabilities_data (part_000) and
   parse_json_data (temp.py): the decoded list of records, [] on any miss *)
parse_json_data(cell, fields) ==
    IF cell.syn \in {"nan", "empty"} THEN <<>>
    ELSE IF ~decodes(cell) THEN <<>>
    ELSE IF cell.dec.t = "list" THEN keep_dicts(cell.dec.items, fields)
    ELSE <<>>

(* part_000 catches json.JSONDecodeError only; parse_json_data of temp.py
   wraps both decoders in a bare except *)
parse_json_data_raises(v, cell) == v = "navigation" /\ cell.syn = "deep"

parse_software_data(cell) == parse_json_data(cell, SoftwareFields)

(* data_parsing.py: the software record is keyed software / version /
   vendor, the software key being filled from the element's name *)
data_parsing_keys(fields) ==
    IF fields = SoftwareFields THEN <<"software", "version", "vendor">>
    ELSE fields

data_parsing_record(item, fields) ==
    [k \in Range(data_parsing_keys(fields)) |->
        LET from == IF k = "software" THEN "name" ELSE k
        IN strip(py_str(IF from \in DOMAIN item.f THEN item.f[from]
                        ELSE <<>>))]

(* any(item.values()) on a mapping: some value is neither None nor '' *)
any_values(item) == \E k \in DOMAIN item.f : item.f[k] \notin {NaN, <<>>}

RECURSIVE data_parsing_keep(_, _)
data_parsing_keep(items, fields) ==
    IF items = <<>> THEN <<>>
    ELSE IF any_values(Head(items))
         THEN <<data_parsing_record(Head(items), fields)>>
              \o data_parsing_keep(Tail(items), fields)
         ELSE data_parsing_keep(Tail(items), fields)

(* parse_software_data / parse_vulnerabilities_data of data_parsing.py:
   item.values() raises on an element that is no mapping, and the outer
   except turns that into the empty list *)
data_parsing_parse(cell, fields) ==
    IF ~decodes(cell) \/ cell.dec.t # "list" THEN <<>>
    ELSE IF \E i \in DOMAIN cell.dec.items : cell.dec.items[i].t # "dict"
         THEN <<>>
         ELSE data_parsing_keep(cell.dec.items, fields)

parse_vulnerabilities_data(cell) == parse_json_data(cell, VulnFields)

----------------------------------------------------------------------------
(* The workbook (openpyxl).

   A sheet is [title, kind, owner, cells, merged]:
     cells   the rows of the sheet, cells[r] being sheet row r
     merged  the merged ranges of column 1, as <<first row, last row>>
     kind    "MAIN", "SOFTWARE", "VULNERABILITIES" or "NAV"
     owner   the tenant whose records the sheet holds (bookkeeping)
   A row is [tag, id, key, item]: id is the value of column 1, item the
   remaining columns, key the device the row was written for
   (bookkeeping; the sheet itself shows it only where id carries it). *)

HostList == [i \in 1..(MaxDevices + 1) |-> <<"h", ToString(i)>>]
HostRank(h) == CHOOSE i \in DOMAIN HostList : HostList[i] = h

Suffix(kind) ==
    CASE kind = "MAIN" -> <<"_", "M", "A", "I", "N">>
      [] kind = "SOFTWARE" -> <<"_", "S", "O", "F", "T", "W", "A", "R", "E">>
      [] kind = "VULNERABILITIES" ->
            <<"_", "V", "U", "L", "N", "E", "R", "A", "B", "I", "L", "I",
              "T", "I", "E", "S">>

SheetTypes == <<"MAIN", "SOFTWARE", "VULNERABILITIES">>

(* the title of the navigation sheet, transliterated *)
NavTitle == <<"N", "A", "V", "I", "G", "A", "T", "S", "I", "Y", "A">>

sheetnames(book) == {book[i].title : i \in DOMAIN book}

(* openpyxl INVALID_TITLE_REGEX: a title holding one of these raises
   ValueError in create_sheet *)
InvalidTitleChars == {"\\", "*", "?", ":", "/", "[", "]"}

valid_title(title) == \A i \in DOMAIN title : title[i] \notin InvalidTitleChars

(* openpyxl avoid_duplicate_name: a title already in the workbook gets the
   next free number appended (openpyxl compares without regard to case; the
   names of the model do not differ in case only).  A title longer than 31
   characters is accepted (current openpyxl only warns). *)
EndsWith(s, t) == /\ Len(t) <= Len(s)
                  /\ SubSeq(s, Len(s) - Len(t) + 1, Len(s)) = t

avoid_duplicate_name(names, value) ==
    IF value \notin names THEN value
    ELSE LET counts == {k \in 1..9 :
                          \E n \in names : EndsWith(n, value \o <<ToString(k)>>)}
             highest == IF counts = {} THEN 0 ELSE Max(counts)
         IN value \o <<ToString(highest + 1)>>

BackRow == [tag |-> "back", id |-> <<"b", "a", "c", "k">>, key |-> NaN,
            item |-> <<>>]

HeaderRow(columns) == [tag |-> "header", id |-> <<"f", "q", "d", "n">>,
                       key |-> NaN, item |-> columns]

(* wb.create_sheet(title) followed by add_back_to_navigation_link(ws) *)
new_sheet(book, title, kind, owner) ==
    [title |-> avoid_duplicate_name(sheetnames(book), title),
     kind |-> kind, owner |-> owner, cells |-> <<BackRow>>, merged |-> {}]

(* ws.merge_cells on column 1: records the range and blanks every cell of
   the range but its first *)
merge_cells(ws, first, last) ==
    [ws EXCEPT !.merged = @ \cup {<<first, last>>},
               !.cells = [r \in DOMAIN @ |->
                            IF r > first /\ r <= last
                            THEN [@[r] EXCEPT !.id = NaN] ELSE @[r]]]

(* the rows written for one group: the first carries the identifier *)
group_rows(group) ==
    [i \in 1..Len(group) |->
        [tag |-> "data", id |-> IF i = 1 THEN group[1].fqdn ELSE NaN,
         key |-> group[i].fqdn, item |-> group[i].item]]

(* df.groupby(id_columns): the keys in ascending order *)
RECURSIVE sorted_keys(_)
sorted_keys(S) ==
    IF S = {} THEN <<>>
    ELSE LET m == CHOOSE h \in S : \A g \in S : HostRank(h) <= HostRank(g)
         IN <<m>> \o sorted_keys(S \ {m})

RECURSIVE write_groups(_, _, _, _)
write_groups(ws, df, keys, current_row) ==
    IF keys = <<>> THEN ws
    ELSE LET InGroup(r) == r.fqdn = Head(keys)
             group == SelectSeq(df, InGroup)
             appended == [ws EXCEPT !.cells = @ \o group_rows(group)]
             done == IF Len(group) > 1
                     THEN merge_cells(appended, current_row,
                                      current_row + Len(group) - 1)
                     ELSE appended
         IN write_groups(done, df, Tail(keys), current_row + Len(group))

(* part_000: start_row = 2, the header is written into row 2 and
   current_row starts at start_row + 1 *)
create_merged_sheet_navigation_first_row == 3
(* temp.py: the header is appended (below the back link, so row 2) and
   current_row starts at 2 *)
create_merged_sheet_temp_first_row == 2

create_merged_sheet(v, ws, df, data_columns) ==
    LET headed == [ws EXCEPT !.cells = @ \o <<HeaderRow(data_columns)>>]
        keys == sorted_keys({df[i].fqdn : i \in DOMAIN df})
    IN IF df = <<>> THEN headed
       ELSE write_groups(headed, df, keys,
                IF v = "navigation"
                THEN create_merged_sheet_navigation_first_row
                ELSE create_merged_sheet_temp_first_row)

----------------------------------------------------------------------------
(* parse_os_data

   A cell of the os column is [kind, text, style, lead, f]:
     kind = "nan"    missing cell
     kind = "text"   free text, given by text
     kind = "number" a number (not a str), text being its str()
     kind = "deep"   a text json.loads gives up on with RecursionError:
                     {"name": followed by more opening brackets than the
                     interpreter's recursion limit; text holds its start
     kind = "coded"  the text of a mapping with the entries f (key -> value,
                     the value NaN being null / None), written
                       style = "json"   with double quotes and null
                       style = "pylit"  with single quotes and None
                     and, when lead holds, after a leading blank.
   The text of a coded cell is written out by os_text; the decoders are
   modelled by what they accept and yield, not by parsing that text. *)

OsKeys == <<"name", "version">>

Chars(word) ==
    CASE word = "name" -> <<"n", "a", "m", "e">>
      [] word = "version" -> <<"v", "e", "r", "s", "i", "o", "n">>
      [] word = "null" -> <<"n", "u", "l", "l">>
      [] word = "None" -> <<"N", "o", "n", "e">>

render_value(style, x) ==
    LET q == IF style = "json" THEN "\"" ELSE "'"
    IN IF x = NaN THEN Chars(IF style = "json" THEN "null" ELSE "None")
       ELSE <<q>> \o x \o <<q>>

RECURSIVE render_entries(_, _, _)
render_entries(style, f, keys) ==
    IF keys = <<>> THEN <<>>
    ELSE IF Head(keys) \notin DOMAIN f THEN render_entries(style, f, Tail(keys))
    ELSE LET q == IF style = "json" THEN "\"" ELSE "'"
             rest == render_entries(style, f, Tail(keys))
         IN <<q>> \o Chars(Head(keys)) \o <<q, ":", " ">>
            \o render_value(style, f[Head(keys)])
            \o (IF rest = <<>> THEN <<>> ELSE <<",", " ">> \o rest)

os_text(cell) ==
    IF cell.kind \in {"text", "number", "deep"} THEN cell.text
    ELSE (IF cell.lead THEN <<" ">> ELSE <<>>)
         \o <<"{">> \o render_entries(cell.style, cell.f, OsKeys) \o <<"}">>

(* str.lower() on the letters that occur in the model *)
lower(c) ==
    CASE c = "N" -> "n" [] c = "A" -> "a" [] c = "M" -> "m" [] c = "E" -> "e"
      [] c = "U" -> "u" [] OTHER -> c

Contains(s, t) ==
    \E i \in 0..(Len(s) - Len(t)) : SubSeq(s, i + 1, i + Len(t)) = t

(* any(x in os_value.lower() for x in ['name', 'version']) *)
has_marker(text) ==
    LET low == [i \in DOMAIN text |-> lower(text[i])]
    IN Contains(low, Chars("name")) \/ Contains(low, Chars("version"))

(* the pair of a split at the first blank instead of the last *)
rsplit_pair_first(text) ==
    LET blanks == {i \in DOMAIN text : text[i] = " "}
    IN IF blanks = {} THEN <<text, NaN>>
       ELSE <<SubSeq(text, 1, Min(blanks) - 1),
              SubSeq(text, Min(blanks) + 1, Len(text))>>

(* os_value.rsplit(' ', 1) and the pair built from its parts *)
rsplit_pair(text) ==
    LET blanks == {i \in DOMAIN text : text[i] = " "}
    IN IF blanks = {} THEN <<text, NaN>>
       ELSE <<SubSeq(text, 1, Max(blanks) - 1),
              SubSeq(text, Max(blanks) + 1, Len(text))>>

(* json.loads accepts the json style; ast.literal_eval accepts the pylit
   style and a json text without null (it strips leading blanks itself) *)
json_loads_ok(cell) == cell.kind = "coded" /\ cell.style = "json"

literal_eval_ok(cell) ==
    /\ cell.kind = "coded"
    /\ \/ cell.style = "pylit"
       \/ \A k \in DOMAIN cell.f : cell.f[k] # NaN

name_version(cell) ==
    <<sub_field(cell, "name"), sub_field(cell, "version")>>

NanOs == [kind |-> "nan", text |-> <<>>, style |-> "none", lead |-> FALSE,
          f |-> <<>>]

TextOs(text) == [kind |-> "text", text |-> text, style |-> "none",
                 lead |-> FALSE, f |-> <<>>]

NumberOs(text) == [kind |-> "number", text |-> text, style |-> "none",
                   lead |-> FALSE, f |-> <<>>]

DeepOs == [kind |-> "deep",
           text |-> <<"{", "\"", "n", "a", "m", "e", "\"", ":", "[", "[">>,
           style |-> "none", lead |-> FALSE, f |-> <<>>]

(* part_000 catches json.JSONDecodeError only: any other error of
   json.loads leaves parse_os_data; temp.py has a bare except *)
parse_os_data_raises(v, cell) == v = "navigation" /\ cell.kind = "deep"

parse_os_data_navigation(cell) ==
    IF cell.kind = "nan" \/ os_text(cell) = <<>> THEN <<NaN, NaN>>
    ELSE IF cell.kind = "number" THEN <<cell.text, NaN>>
    ELSE IF ~has_marker(os_text(cell)) THEN rsplit_pair(os_text(cell))
    ELSE IF json_loads_ok(cell) \/ literal_eval_ok(cell)
         THEN name_version(cell)
         ELSE <<os_text(cell), NaN>>

(* temp.py picks one decoder by the first character of the text *)
parse_os_data_temp(cell) ==
    IF cell.kind = "nan" \/ os_text(cell) = <<>> THEN <<NaN, NaN>>
    ELSE IF cell.kind = "number"
         THEN IF cell.text = <<"0">> THEN <<NaN, NaN>> ELSE <<cell.text, NaN>>
    ELSE IF ~has_marker(os_text(cell)) THEN rsplit_pair(os_text(cell))
    ELSE IF Head(os_text(cell)) \in {"{", "["}
         THEN IF json_loads_ok(cell) THEN name_version(cell)
              ELSE <<os_text(cell), NaN>>
         ELSE IF literal_eval_ok(cell) THEN name_version(cell)
              ELSE <<os_text(cell), NaN>>

parse_os_data(v, cell) ==
    IF v = "navigation" THEN parse_os_data_navigation(cell)
    ELSE parse_os_data_temp(cell)

----------------------------------------------------------------------------
(* create_tenant_sheets *)

(* the rows of the SOFTWARE / VULNERABILITIES frame: one per decoded item;
   part_000 iterates "items or [{}]", so a device without items still
   yields one row, which has the fqdn and no other column *)
RECURSIVE item_rows(_, _, _, _)
item_rows(v, data, column, fields) ==
    IF data = <<>> THEN <<>>
    ELSE LET d == Head(data)
             items == parse_json_data(d[column], fields)
             blank == <<[k \in Range(fields) |-> NaN]>>
             used == IF v = "navigation" /\ items = <<>> THEN blank ELSE items
         IN [i \in 1..Len(used) |-> [fqdn |-> d.fqdn, item |-> used[i]]]
            \o item_rows(v, Tail(data), column, fields)

MainColumns == <<"ipAddresses", "CPU", "RAM", "Disk Space", "Network Cards",
                 "macAddresses", "os", "os_version">>

main_sheet(book, title, owner, tenant_data) ==
    [new_sheet(book, title, "MAIN", owner) EXCEPT
        !.cells = @ \o <<HeaderRow(MainColumns)>> \o
                  [i \in 1..Len(tenant_data) |->
                      [tag |-> "data", id |-> tenant_data[i].fqdn,
                       key |-> tenant_data[i].fqdn,
                       item |-> [hw |-> tenant_data[i].hw,
                                 os |-> tenant_data[i].os_parsed,
                                 os_version |-> tenant_data[i].os_version]]]]

(* one grouped sheet, created when the frame is not empty *)
with_item_sheet(v, book, prefix, owner, tenant_data, kind, column, fields) ==
    LET df == item_rows(v, tenant_data, column, fields)
        ws == new_sheet(book, prefix \o Suffix(kind), kind, owner)
    IN IF df = <<>> THEN book
       ELSE Append(book, create_merged_sheet(v, ws, df, fields))

(* create_tenant_sheets without its handler: a failure takes the
   workbook built so far with it *)
create_tenant_sheets_uncaught(v, book, merged, tenant_name) ==
    LET clean_name == clean_tenant_name(v, tenant_name)
        prefix == Slice(clean_name, PrefixLen)
        OfTenant(r) == r.tenantName = tenant_name
        tenant_data == SelectSeq(merged, OfTenant)
        wb1 == Append(book, main_sheet(book, prefix \o Suffix("MAIN"),
                                       tenant_name, tenant_data))
        wb2 == with_item_sheet(v, wb1, prefix, tenant_name, tenant_data,
                               "SOFTWARE", "software", SoftwareFields)
        wb3 == with_item_sheet(v, wb2, prefix, tenant_name, tenant_data,
                               "VULNERABILITIES", "vulnerabilities",
                               VulnFields)
        Raises(column) ==
            \E i \in DOMAIN tenant_data :
                parse_json_data_raises(v, tenant_data[i][column])
    IN IF ~valid_title(prefix \o Suffix("MAIN")) THEN <<>>
       ELSE IF Raises("software") THEN <<>>
       ELSE IF Raises("vulnerabilities") THEN <<>>
       ELSE wb3

(* The three titles share the prefix and the suffixes hold no invalid
   character, so create_sheet raises for the first sheet or for none; the
   handler of create_tenant_sheets then leaves the workbook as it was.
   When a list field raises in its normalizer, the handler leaves the
   sheets created before it in the workbook. *)
create_tenant_sheets(v, book, merged, tenant_name) ==
    LET clean_name == clean_tenant_name(v, tenant_name)
        prefix == Slice(clean_name, PrefixLen)
        OfTenant(r) == r.tenantName = tenant_name
        tenant_data == SelectSeq(merged, OfTenant)
        wb1 == Append(book, main_sheet(book, prefix \o Suffix("MAIN"),
                                       tenant_name, tenant_data))
        wb2 == with_item_sheet(v, wb1, prefix, tenant_name, tenant_data,
                               "SOFTWARE", "software", SoftwareFields)
        wb3 == with_item_sheet(v, wb2, prefix, tenant_name, tenant_data,
                               "VULNERABILITIES", "vulnerabilities",
                               VulnFields)
        Raises(column) ==
            \E i \in DOMAIN tenant_data :
                parse_json_data_raises(v, tenant_data[i][column])
    IN IF ~valid_title(prefix \o Suffix("MAIN")) THEN book
       ELSE IF Raises("software") THEN wb1
       ELSE IF Raises("vulnerabilities") THEN wb2
       ELSE wb3

----------------------------------------------------------------------------
(* create_navigation_sheet *)

(* nav_row without the "sheet_name in wb.sheetnames" test *)
nav_row_unguarded(v, names, tenant) ==
    LET clean_name == clean_tenant_name(v, tenant)
        prefix == Slice(clean_name, PrefixLen)
    IN [tag |-> "nav", id |-> clean_name, key |-> tenant,
        item |-> [k \in Range(SheetTypes) |-> prefix \o Suffix(k)]]

nav_row(v, names, tenant) ==
    LET clean_name == clean_tenant_name(v, tenant)
        prefix == Slice(clean_name, PrefixLen)
    IN [tag |-> "nav", id |-> clean_name, key |-> tenant,
        item |-> [k \in Range(SheetTypes) |->
                     IF prefix \o Suffix(k) \in names
                     THEN prefix \o Suffix(k) ELSE NaN]]

(* create_navigation_sheet adding its sheet last instead of at index 0 *)
create_navigation_sheet_last(v, book, tenant_list) ==
    LET names == sheetnames(book) \cup {NavTitle}
        ws_nav == [title |-> NavTitle, kind |-> "NAV", owner |-> NaN,
                   cells |-> <<[tag |-> "title", id |-> NaN, key |-> NaN,
                                item |-> <<>>],
                               [tag |-> "header", id |-> NaN, key |-> NaN,
                                item |-> SheetTypes]>>
                             \o [i \in 1..Len(tenant_list) |->
                                    nav_row(v, names, tenant_list[i])],
                   merged |-> {}]
    IN book \o <<ws_nav>>

create_navigation_sheet(v, book, tenant_list) ==
    LET names == sheetnames(book) \cup {NavTitle}
        ws_nav == [title |-> NavTitle, kind |-> "NAV", owner |-> NaN,
                   cells |-> <<[tag |-> "title", id |-> NaN, key |-> NaN,
                                item |-> <<>>],
                               [tag |-> "header", id |-> NaN, key |-> NaN,
                                item |-> SheetTypes]>>
                             \o [i \in 1..Len(tenant_list) |->
                                    nav_row(v, names, tenant_list[i])],
                   merged |-> {}]
    IN <<ws_nav>> \o book

----------------------------------------------------------------------------
(* process_data *)

(* a join that keeps matched rows only *)
RECURSIVE merge_inner(_, _)
merge_inner(left, right) ==
    IF left = <<>> THEN <<>>
    ELSE LET l == Head(left)
             Match(r) == r.fqdn = l.fqdn
             hits == SelectSeq(right, Match)
             Joined(hw) == [tenantName |-> l.tenantName, fqdn |-> l.fqdn,
                            software |-> l.software,
                            vulnerabilities |-> l.vulnerabilities,
                            os |-> l.os, hw |-> hw]
         IN [i \in 1..Len(hits) |-> Joined(hits[i].hw)]
            \o merge_inner(Tail(left), right)

(* pd.merge(all_data, devices_report, on='fqdn', how='left') *)
RECURSIVE merge(_, _)
merge(left, right) ==
    IF left = <<>> THEN <<>>
    ELSE LET l == Head(left)
             Match(r) == r.fqdn = l.fqdn
             hits == SelectSeq(right, Match)
             Joined(hw) == [tenantName |-> l.tenantName, fqdn |-> l.fqdn,
                            software |-> l.software,
                            vulnerabilities |-> l.vulnerabilities,
                            os |-> l.os, hw |-> hw]
         IN (IF hits = <<>> THEN <<Joined(NaN)>>
             ELSE [i \in 1..Len(hits) |-> Joined(hits[i].hw)])
            \o merge(Tail(left), right)

(* Series.unique(): first occurrences, in order *)
RECURSIVE unique(_)
unique(s) ==
    IF s = <<>> THEN <<>>
    ELSE LET rest == unique(SubSeq(s, 1, Len(s) - 1))
         IN IF s[Len(s)] \in Range(rest) THEN rest
            ELSE Append(rest, s[Len(s)])

(* [t for t in ... if pd.notna(t)] *)
notna(t) == t # NaN

(* the merged rows with the cleaned tenant name and the two os columns *)
prepare(v, joined) ==
    [i \in 1..Len(joined) |->
        [tenantName |-> clean_tenant_name(v, joined[i].tenantName),
         fqdn |-> joined[i].fqdn,
         software |-> joined[i].software,
         vulnerabilities |-> joined[i].vulnerabilities,
         os |-> joined[i].os,
         hw |-> joined[i].hw,
         os_parsed |-> parse_os_data(v, joined[i].os)[1],
         os_version |-> parse_os_data(v, joined[i].os)[2]]]

(* [t for t in merged_data['tenantName'].unique() if pd.notna(t)] *)
tenant_list(cleaned) ==
    SelectSeq(unique([i \in 1..Len(cleaned) |-> cleaned[i].tenantName]),
              notna)

(* a load that checks the files only *)
load_error_lenient(v, e, rows) ==
    IF e.files # InputFiles
    THEN [type |-> "FileNotFoundError",
          names |-> IF "all_data_combined" \notin e.files
                    THEN {"all_data_combined"} ELSE {"devices_report"}]
    ELSE NoError

(* what stops process_data before the workbook is created, NoError when
   nothing does: a missing file (read_excel), a missing hardware column
   (the explicit check of part_000, usecols in temp.py), an os text on
   which parse_os_data raises, a missing tenantName column *)
load_error(v, e, rows) ==
    IF e.files # InputFiles
    THEN [type |-> "FileNotFoundError",
          names |-> IF "all_data_combined" \notin e.files
                    THEN {"all_data_combined"} ELSE {"devices_report"}]
    ELSE IF required_columns \ e.hw_columns # {}
    THEN [type |-> IF v = "navigation" THEN "Exception" ELSE "ValueError",
          names |-> required_columns \ e.hw_columns]
    ELSE IF \E i \in DOMAIN rows : parse_os_data_raises(v, rows[i].os)
    THEN [type |-> "RecursionError", names |-> {}]
    ELSE IF ~e.tenantName
    THEN [type |-> "Exception", names |-> {"tenantName"}]
    ELSE NoError

(* process_data up to the render loop; on an exception control passes to
   the except clause and the frames built so far are not used again *)
Load ==
    /\ pc = "load"
    /\ LET cleaned == prepare(variant, merge(all_data, devices_report))
           failure == load_error(variant, env, all_data)
       IN IF failure # NoError
          THEN /\ error' = failure
               /\ pc' = "except"
               /\ UNCHANGED <<merged_data, tenants, wb, ti>>
          ELSE /\ merged_data' = cleaned
               /\ tenants' = tenant_list(cleaned)
               /\ wb' = <<>>
               /\ ti' = 1
               /\ pc' = "render"
               /\ error' = error
    /\ UNCHANGED <<variant, all_data, devices_report, saved, arg, ret, env,
                   stdout, status>>

RenderTenant ==
    /\ pc = "render"
    /\ ti <= Len(tenants)
    /\ wb' = create_tenant_sheets(variant, wb, merged_data, tenants[ti])
    /\ ti' = ti + 1
    /\ UNCHANGED <<variant, pc, all_data, devices_report, merged_data,
                   tenants, saved, arg, ret>>
    /\ UNCHANGED <<env, error, stdout, status>>

CreateNavigation ==
    /\ pc = "render"
    /\ ti > Len(tenants)
    /\ wb' = create_navigation_sheet(variant, wb, tenants)
    /\ pc' = "save"
    /\ UNCHANGED <<variant, all_data, devices_report, merged_data, tenants,
                   ti, saved, arg, ret>>
    /\ UNCHANGED <<env, error, stdout, status>>

Save ==
    /\ pc = "save"
    /\ saved' = wb
    /\ pc' = "done"
    /\ UNCHANGED <<variant, all_data, devices_report, merged_data, tenants,
                   ti, wb, arg, ret>>
    /\ UNCHANGED <<env, error, stdout, status>>

Next == Load \/ RenderTenant \/ CreateNavigation \/ Save

----------------------------------------------------------------------------
(* Input tables *)

SoftwareItem == Dict([k \in Range(SoftwareFields) |-> <<"s">>])
VulnItem == Dict([k \in Range(VulnFields) |-> <<"v">>])

(* a JSON list of n software entries; n = 0 is the text [] *)
SoftwareList(n) == ListCell("json", [i \in 1..n |-> SoftwareItem])
VulnList(n) == ListCell("json", [i \in 1..n |-> VulnItem])

(* one hardware row per host *)
Hardware == [i \in DOMAIN HostList |-> [fqdn |-> HostList[i], hw |-> <<"c">>]]

Tables(rows) == UNION {[1..n -> rows] : n \in 1..MaxDevices}

Started == /\ variant \in Variants
           /\ pc = "load"
           /\ devices_report = Hardware
           /\ merged_data = <<>>
           /\ tenants = <<>>
           /\ ti = 0
           /\ wb = <<>>
           /\ saved = <<>>
           /\ arg = NaN
           /\ ret = NaN
           /\ env = ValidEnv
           /\ Quiet

(* Spec: two tenants, "[TEST] Corp" and "B"; the devices vary in host name
   and in their software and vulnerability lists *)
Corp == <<"[", "T", "E", "S", "T", "]", " ", "C", "o", "r", "p">>

(* the os text "U 2" *)
Ubuntu == TextOs(<<"U", " ", "2">>)

RowsInit ==
    [tenantName : {Corp, <<"B">>},
     fqdn : {HostList[1], HostList[2]},
     software : {GarbageCell} \cup {SoftwareList(n) : n \in 0..MaxItems},
     vulnerabilities : {NanCell, VulnList(2)},
     os : {Ubuntu}]

Init == /\ all_data \in Tables(RowsInit)
        /\ Started

Spec == Init /\ [][Next]_vars

----------------------------------------------------------------------------
(* Properties of the rendered sheets *)

Sheets(book, kind) == {i \in DOMAIN book : book[i].kind = kind}

(* the devices of a tenant, and the items decoded from one of its columns *)
DevicesOf(tenant) ==
    {j \in DOMAIN merged_data : merged_data[j].tenantName = tenant}

ItemsOf(j, kind) ==
    IF kind = "SOFTWARE" THEN parse_software_data(merged_data[j].software)
    ELSE parse_vulnerabilities_data(merged_data[j].vulnerabilities)

(* the sum of the function f over its domain *)
RECURSIVE Sum(_)
Sum(f) == IF DOMAIN f = {} THEN 0
          ELSE LET x == CHOOSE y \in DOMAIN f : TRUE
               IN f[x] + Sum([y \in DOMAIN f \ {x} |-> f[y]])

(* the sheet rows written for a device identifier *)
RowsFor(ws, h) ==
    {r \in DOMAIN ws.cells : ws.cells[r].tag = "data" /\ ws.cells[r].key = h}

DataRows(ws) == {r \in DOMAIN ws.cells : ws.cells[r].tag = "data"}

HasItems(tenant, kind) == \E j \in DevicesOf(tenant) : ItemsOf(j, kind) # <<>>

(* C1: a tenant's SOFTWARE sheet exists only if one of its devices has a
   non-empty decoded software list, and its VULNERABILITIES sheet only if
   one of its devices has a non-empty decoded vulnerability list. *)
C1_ItemSheetsOnlyWithItems ==
    pc = "done" =>
      \A kind \in {"SOFTWARE", "VULNERABILITIES"} :
        \A i \in Sheets(saved, kind) : HasItems(saved[i].owner, kind)

(* C2: a tenant's software sheet holds exactly K data rows for a device
   with K decoded software items (none for K = 0), and its MAIN sheet one
   data row per device. *)
C2_RowsPerDevice ==
    pc = "done" =>
      /\ \A i \in Sheets(saved, "SOFTWARE") :
           \A h \in Range(HostList) :
             LET Mine == {j \in DevicesOf(saved[i].owner) :
                            merged_data[j].fqdn = h}
                 K == [j \in Mine |-> Len(ItemsOf(j, "SOFTWARE"))]
             IN Cardinality(RowsFor(saved[i], h)) = Sum(K)
      /\ \A i \in Sheets(saved, "MAIN") :
           Cardinality(DataRows(saved[i]))
             = Cardinality(DevicesOf(saved[i].owner))

(* the rows of each device group of a grouped sheet *)
Groups(ws) == {RowsFor(ws, h) : h \in Range(HostList)} \ {{}}

(* C3: on a grouped sheet the merged ranges of the identifier column are
   exactly the row blocks of the groups of more than one row, each block
   starting with the row that carries the identifier; no range reaches the
   header row, a one-row group or another group. *)
C3_MergedRangesAreGroups ==
    \A i \in Sheets(wb, "SOFTWARE") \cup Sheets(wb, "VULNERABILITIES") :
      /\ \A g \in Groups(wb[i]) :
           /\ g = Min(g)..Max(g)
           /\ wb[i].cells[Min(g)].id = wb[i].cells[Min(g)].key
           /\ \A r \in g \ {Min(g)} : wb[i].cells[r].id = NaN
      /\ wb[i].merged =
           {<<Min(g), Max(g)>> : g \in {x \in Groups(wb[i]) :
                                          Cardinality(x) > 1}}

----------------------------------------------------------------------------
(* SpecNames: the tenant names vary; device i is host i *)

Pad == [i \in 1..PrefixLen |-> "p"]

TenantNames ==
    {NaN,
     <<"A">>,
     <<"[", "T", "]", " ", "A">>,
     <<"[", "T", "]">>,
     <<"B", ":">>,
     Pad \o <<"x">>,
     Pad \o <<"y">>}

RowsNames ==
    [tenantName : TenantNames,
     software : {SoftwareList(0), SoftwareList(1)},
     vulnerabilities : {NanCell, VulnList(1)}]

OnHosts(t) == [i \in DOMAIN t |->
                 [tenantName |-> t[i].tenantName, fqdn |-> HostList[i],
                  software |-> t[i].software,
                  vulnerabilities |-> t[i].vulnerabilities,
                  os |-> Ubuntu]]

InitNames == /\ all_data \in {OnHosts(t) : t \in Tables(RowsNames)}
             /\ Started

SpecNames == InitNames /\ [][Next]_vars

(* merge_and_export_to_xlsx (parsed.py): the sheet name of a tenant *)
ExportStripped == {"[", "]", ":", "*", "?", "/", "\\"}

export_sheet_name(tenant) ==
    LET Kept(c) == c \notin ExportStripped
    IN SelectSeq(Slice(py_str(tenant), TitleLimit), Kept)

(* the tenant rows of the navigation sheet, as a sequence *)
NavRows(book) ==
    LET IsNav(row) == row.tag = "nav"
        On(i) == SelectSeq(book[i].cells, IsNav)
        nav == Sheets(book, "NAV")
    IN IF nav = {} THEN <<>> ELSE On(Min(nav))

TenantSheets(book) == DOMAIN book \ Sheets(book, "NAV")

(* C4: every per-tenant sheet title created by create_tenant_sheets, and
   every sheet name of merge_and_export_to_xlsx, has at most 31 characters
   and none of the characters [ ] : * ? / \ *)
C4_SheetTitlesFit ==
    /\ \A i \in TenantSheets(wb) :
         Len(wb[i].title) <= TitleLimit /\ valid_title(wb[i].title)
    /\ \A j \in DOMAIN all_data :
         LET name == export_sheet_name(all_data[j].tenantName)
         IN Len(name) <= TitleLimit /\ valid_title(name)

(* C5: in the saved workbook every link of the navigation sheet targets a
   sheet of that workbook. *)
C5_LinksTargetSavedSheets ==
    pc = "done" =>
      \A row \in Range(NavRows(saved)) : \A k \in Range(SheetTypes) :
        row.item[k] # NaN => row.item[k] \in sheetnames(saved)

(* a saved workbook with a tenant whose rendering failed (no sheet, no
   link), and a tenant with a MAIN link and no SOFTWARE sheet *)
C5_Witness ==
    /\ pc = "done"
    /\ \E row \in Range(NavRows(saved)) :
         /\ \A k \in Range(SheetTypes) : row.item[k] = NaN
         /\ \A i \in TenantSheets(saved) : saved[i].owner # row.key
    /\ \E row \in Range(NavRows(saved)) :
         /\ row.item["MAIN"] # NaN
         /\ row.item["SOFTWARE"] = NaN

(* C6: a tenant's navigation row has a link in the column of a sheet type
   exactly when a sheet of that type was created for the tenant, and the
   link targets the sheet that holds that tenant's records. *)
C6_LinksOwnSheets ==
    pc = "done" =>
      \A row \in Range(NavRows(saved)) : \A k \in Range(SheetTypes) :
        /\ row.item[k] # NaN <=>
             \E i \in Sheets(saved, k) : saved[i].owner = row.key
        /\ row.item[k] # NaN =>
             \A i \in DOMAIN saved :
               saved[i].title = row.item[k] => saved[i].owner = row.key

(* C8: a record whose cleaned tenant name is null or empty gets no sheet
   and no navigation row. *)
C8_EmptyNamesExcluded ==
    pc = "done" =>
      \A j \in DOMAIN merged_data :
        merged_data[j].tenantName \in {NaN, <<>>} =>
          /\ \A i \in TenantSheets(saved) :
               saved[i].owner # merged_data[j].tenantName
          /\ \A row \in Range(NavRows(saved)) :
               row.key # merged_data[j].tenantName

KindRank(kind) == CHOOSE n \in DOMAIN SheetTypes : SheetTypes[n] = kind

FirstRow(tenant) == Min(DevicesOf(tenant))

(* C9: the navigation sheet is the leftmost sheet of the saved workbook; it
   has one row per distinct cleaned tenant name, in the order of first
   occurrence in the merged data; the tenants' sheets follow in that order,
   each tenant's own in the order MAIN, SOFTWARE, VULNERABILITIES. *)
C9_FirstOccurrenceOrder ==
    pc = "done" =>
      /\ Sheets(saved, "NAV") = {1}
      /\ LET rows == NavRows(saved)
             names == {merged_data[j].tenantName : j \in DOMAIN merged_data}
                        \ {NaN}
         IN /\ {rows[a].key : a \in DOMAIN rows} = names
            /\ Len(rows) = Cardinality(names)
            /\ \A a, b \in DOMAIN rows :
                 a < b => FirstRow(rows[a].key) < FirstRow(rows[b].key)
      /\ \A p, q \in TenantSheets(saved) :
           p < q =>
             \/ FirstRow(saved[p].owner) < FirstRow(saved[q].owner)
             \/ /\ saved[p].owner = saved[q].owner
                /\ KindRank(saved[p].kind) < KindRank(saved[q].kind)

(* two tenants, the later one first in alphabetical order, both with all
   three sheets *)
C9_Witness ==
    /\ pc = "done"
    /\ tenants = <<Pad \o <<"x">>, <<"A">> >>
    /\ Len(saved) = 7

----------------------------------------------------------------------------
(* Call harness for parse_os_data *)

OsAlphabet == {"U", "2", " ", "\n"}

SubValues == {<<>>, <<" ">>, <<"U">>, <<" ", "U", " ">>, NaN}

OsEntries == UNION {[K -> SubValues] : K \in SUBSET {"name", "version"}}

OsCells ==
    {NanOs}
    \cup {TextOs(t) : t \in UNION {[1..k -> OsAlphabet] : k \in 0..MaxOsLen}}
    \cup {TextOs(<<"N", "A", "M", "E", " ", "2">>)}
    \cup [kind : {"coded"}, text : {<<>>}, style : {"json", "pylit"},
          lead : BOOLEAN, f : OsEntries]

InitOs == /\ variant \in Variants
          /\ pc = "call"
          /\ arg \in OsCells
          /\ ret = NaN
          /\ Idle

CallOs == /\ pc = "call"
          /\ ret' = parse_os_data(variant, arg)
          /\ pc' = "returned"
          /\ UNCHANGED <<variant, all_data, devices_report, merged_data,
                         tenants, ti, wb, saved, arg>>
          /\ UNCHANGED <<env, error, stdout, status>>

NextOs == CallOs

SpecOs == InitOs /\ [][NextOs]_vars

(* the expected sub-field: the trimmed text, null when the key is
   missing or the text blank *)
Trimmed(cell, k) ==
    IF k \notin DOMAIN cell.f \/ strip(cell.f[k]) = <<>> THEN NaN
    ELSE strip(cell.f[k])

(* C10: an os text that is the JSON or the Python-literal form of a
   name/version mapping (its sub-fields being text) yields the trimmed name
   and the trimmed version, a missing or blank sub-field yielding null. *)
C10_CodedOsYieldsSubFields ==
    (/\ pc = "returned"
     /\ arg.kind = "coded"
     /\ DOMAIN arg.f # {}
     /\ \A k \in DOMAIN arg.f : arg.f[k] # NaN)
    => ret = <<Trimmed(arg, "name"), Trimmed(arg, "version")>>

(* an os cell that is a non-empty text without "name" and "version" *)
Unmarked(cell) == /\ cell.kind \in {"text", "coded"}
                  /\ os_text(cell) # <<>>
                  /\ ~has_marker(os_text(cell))

(* C11 as stated: a non-empty os text without "name" or "version" is split
   at its last whitespace character into (text before, text after), and is
   returned as (text, null) when it holds no whitespace. *)
C11_SplitAtLastWhitespace ==
    (pc = "returned" /\ Unmarked(arg)) =>
      LET text == os_text(arg)
          spaces == {i \in DOMAIN text : IsSpace(text[i])}
      IN ret = IF spaces = {} THEN <<text, NaN>>
               ELSE <<SubSeq(text, 1, Max(spaces) - 1),
                      SubSeq(text, Max(spaces) + 1, Len(text))>>

(* C11 amended: the split is at the last blank (U+0020); other whitespace
   does not split.  With a blank in the text the two parts joined by a
   blank give the text back and the second part holds no blank; without a
   blank the result is (text, null). *)
C11_SplitAtLastBlank ==
    (pc = "returned" /\ Unmarked(arg)) =>
      LET text == os_text(arg)
      IN IF \E i \in DOMAIN text : text[i] = " "
         THEN /\ ret[1] # NaN /\ ret[2] # NaN
              /\ ret[1] \o <<" ">> \o ret[2] = text
              /\ \A i \in DOMAIN ret[2] : ret[2][i] # " "
         ELSE ret = <<text, NaN>>

(* the text "U 2" split into ("U", "2") *)
C11_Witness ==
    /\ pc = "returned"
    /\ arg = TextOs(<<"U", " ", "2">>)
    /\ ret = << <<"U">>, <<"2">> >>

----------------------------------------------------------------------------
(* The field normalizers called one at a time: arg is [field, value], the
   column and its cell; a call ends with pc = "returned" and the value in
   ret, or with pc = "raised" when an exception leaves the function. *)

(* elements of a decoded list: a non-mapping, mappings with one key, and a
   full record *)
FieldItems(fields) ==
    {Scalar, Dict(<<>>), Dict([k \in Range(fields) |-> <<"s">>])}
    \cup {Dict([k \in {fields[1]} |-> x]) : x \in SubValues}

ListCells(fields) ==
    {NanCell, EmptyCell, GarbageCell, NumberCell, MappingCell, DeepCell}
    \cup {ListCell(syn, items) :
            syn \in {"json", "pylit"},
            items \in UNION {[1..n -> FieldItems(fields)] : n \in 0..MaxItems}}

FieldArgs ==
    [field : {"os"}, value : OsCells \cup {NumberOs(<<"0">>),
                                           NumberOs(<<"2">>), DeepOs}]
    \cup [field : {"software"}, value : ListCells(SoftwareFields)]
    \cup [field : {"vulnerabilities"}, value : ListCells(VulnFields)]

FieldsOf(a) == IF a.field = "software" THEN SoftwareFields ELSE VulnFields

normalize(v, a) ==
    CASE v = "data_parsing" -> data_parsing_parse(a.value, FieldsOf(a))
      [] a.field = "os" -> parse_os_data(v, a.value)
      [] a.field = "software" -> parse_software_data(a.value)
      [] a.field = "vulnerabilities" -> parse_vulnerabilities_data(a.value)

normalize_raises(v, a) ==
    IF a.field = "os" THEN parse_os_data_raises(v, a.value)
    ELSE parse_json_data_raises(v, a.value)

(* the list fields are also put through data_parsing.py *)
InitFields == /\ variant \in Variants \cup {"data_parsing"}
              /\ pc = "call"
              /\ arg \in FieldArgs
              /\ variant = "data_parsing" => arg.field # "os"
              /\ ret = NaN
              /\ Idle

ReturnField == /\ pc = "call"
               /\ ~normalize_raises(variant, arg)
               /\ ret' = normalize(variant, arg)
               /\ pc' = "returned"
               /\ UNCHANGED <<variant, all_data, devices_report, merged_data,
                              tenants, ti, wb, saved, arg>>
               /\ UNCHANGED <<env, error, stdout, status>>

RaiseField == /\ pc = "call"
              /\ normalize_raises(variant, arg)
              /\ pc' = "raised"
              /\ UNCHANGED <<variant, all_data, devices_report, merged_data,
                             tenants, ti, wb, saved, arg, ret>>
              /\ UNCHANGED <<env, error, stdout, status>>

NextFields == ReturnField \/ RaiseField

SpecFields == InitFields /\ [][NextFields]_vars

(* C12: no field normalizer raises, whatever the cell holds (missing, empty,
   any text, a number), and a software / vulnerabilities text that neither
   decoder accepts yields the empty list. *)
C12_NormalizersNeverRaise ==
    /\ pc # "raised"
    /\ (pc = "returned" /\ arg.field # "os"
        /\ arg.value.syn \in {"garbage", "deep"}) => ret = <<>>

(* the mapping elements of a decoded list, in list order *)
Mappings(items) ==
    LET IsDict(x) == x.t = "dict" IN SelectSeq(items, IsDict)

DecodedList(a) ==
    /\ a.field # "os"
    /\ decodes(a.value)
    /\ a.value.dec.t = "list"

(* C13: a software / vulnerabilities cell that decodes to a list yields one
   record per mapping element, in list order, elements that are no mapping
   being dropped alone; every record has exactly the fixed sub-fields of
   its column, a sub-field whose key is missing or whose text is blank being
   null and a sub-field with other text being that text trimmed. *)
C13_OneRecordPerMapping ==
    (pc = "returned" /\ DecodedList(arg)) =>
      LET maps == Mappings(arg.value.dec.items)
      IN /\ Len(ret) = Len(maps)
         /\ \A i \in DOMAIN ret :
              /\ DOMAIN ret[i] = Range(FieldsOf(arg))
              /\ \A k \in DOMAIN ret[i] :
                   \/ k \in DOMAIN maps[i].f /\ maps[i].f[k] = NaN
                   \/ ret[i][k] = Trimmed(maps[i], k)

----------------------------------------------------------------------------
(* The program run as a script: the __main__ block checks the input files,
   calls process_data and prints whatever exception reaches it. *)

(* __main__ up to the call of process_data *)
Main ==
    /\ pc = "main"
    /\ IF env.files # InputFiles
       THEN /\ error' = [type |-> "Exception",
                         names |-> InputFiles \ env.files]
            /\ pc' = "main_except"
       ELSE /\ pc' = "load"
            /\ error' = error
    /\ UNCHANGED <<variant, all_data, devices_report, merged_data, tenants,
                   ti, wb, saved, arg, ret, env, stdout, status>>

(* the except clause of process_data: print message and traceback, raise *)
ProcessExcept ==
    /\ pc = "except"
    /\ stdout' = Append(stdout, [by |-> "process_data", names |-> error.names,
                                 traceback |-> TRUE])
    /\ pc' = "main_except"
    /\ UNCHANGED <<variant, all_data, devices_report, merged_data, tenants,
                   ti, wb, saved, arg, ret, env, error, status>>

(* the except clause of __main__: print message and traceback; the clause
   holds no raise, so the script runs off its end and exits with 0 *)
MainExcept ==
    /\ pc = "main_except"
    /\ stdout' = Append(stdout, [by |-> "__main__", names |-> error.names,
                                 traceback |-> TRUE])
    /\ status' = "0"
    /\ pc' = "exit"
    /\ UNCHANGED <<variant, all_data, devices_report, merged_data, tenants,
                   ti, wb, saved, arg, ret, env, error>>

(* process_data returned: the script ends *)
Exit ==
    /\ pc = "done"
    /\ status' = "0"
    /\ pc' = "exit"
    /\ UNCHANGED <<variant, all_data, devices_report, merged_data, tenants,
                   ti, wb, saved, arg, ret, env, error, stdout>>

NextScript == \/ Main
              \/ Load
              \/ RenderTenant
              \/ CreateNavigation
              \/ Save
              \/ ProcessExcept
              \/ MainExcept
              \/ Exit

(* Inputs of the script runs, in four families. *)

(* rows of a hardware table: two hosts, the first with two readings *)
HardwareRows == {[fqdn |-> HostList[1], hw |-> <<"c">>],
                 [fqdn |-> HostList[2], hw |-> <<"c">>],
                 [fqdn |-> HostList[1], hw |-> <<"d">>]}

HardwareTables == UNION {[1..n -> HardwareRows] : n \in 0..MaxDevices}

RowsMerge ==
    [tenantName : {Corp},
     fqdn : {HostList[1], HostList[2], HostList[3]},
     software : {SoftwareList(0), SoftwareList(1)},
     vulnerabilities : {NanCell},
     os : {Ubuntu}]

(* 1. valid files and columns; inventory and hardware rows vary *)
MergeInputs ==
    {<<a, h, ValidEnv>> : a \in Tables(RowsMerge), h \in HardwareTables}

OneRow(os) == <<[tenantName |-> Corp, fqdn |-> HostList[1],
                 software |-> SoftwareList(1), vulnerabilities |-> NanCell,
                 os |-> os]>>

(* 2. one device; the files and the columns present vary *)
EnvInputs ==
    {<<OneRow(Ubuntu), Hardware, e>> :
        e \in [files : SUBSET InputFiles,
               hw_columns : SUBSET required_columns,
               tenantName : BOOLEAN]}

(* 3. one device whose os text makes json.loads raise RecursionError *)
DeepOsInputs == {<<OneRow(DeepOs), Hardware, ValidEnv>>}

(* 4. tenants whose rendering fails: a title openpyxl refuses, a software
   text on which the normalizer raises *)
RowsFault ==
    [tenantName : {Corp, <<"B">>, <<"B", ":">>},
     software : {SoftwareList(1), DeepCell},
     vulnerabilities : {VulnList(1)}]

FaultInputs ==
    {<<OnHosts(t), Hardware, ValidEnv>> : t \in Tables(RowsFault)}

InitScript ==
    /\ variant \in Variants
    /\ pc = "main"
    /\ \E x \in MergeInputs \cup EnvInputs \cup DeepOsInputs \cup FaultInputs :
          /\ all_data = x[1]
          /\ devices_report = x[2]
          /\ env = x[3]
    /\ merged_data = <<>>
    /\ tenants = <<>>
    /\ ti = 0
    /\ wb = <<>>
    /\ saved = <<>>
    /\ arg = NaN
    /\ ret = NaN
    /\ Quiet

SpecScript == InitScript /\ [][NextScript]_vars

(* the raw columns of an inventory row, as carried through the merge *)
Raw(r) == <<r.fqdn, r.software, r.vulnerabilities, r.os>>

HardwareOf(h) == {i \in DOMAIN devices_report : devices_report[i].fqdn = h}

Merged == pc \in {"render", "save", "done", "exit"} /\ error = NoError

(* C14: the merged dataset is the left outer join on fqdn.  Every inventory
   row appears in it; a merged row whose fqdn has no hardware row has null
   hardware fields and any other carries the hardware of a row with its
   fqdn; when every inventory device has exactly one hardware row, the
   merged rows are the inventory rows, one for one and in order. *)
C14_LeftOuterJoin ==
    Merged =>
      /\ \A i \in DOMAIN all_data :
           \E j \in DOMAIN merged_data : Raw(merged_data[j]) = Raw(all_data[i])
      /\ \A j \in DOMAIN merged_data :
           IF HardwareOf(merged_data[j].fqdn) = {}
           THEN merged_data[j].hw = NaN
           ELSE \E i \in HardwareOf(merged_data[j].fqdn) :
                   merged_data[j].hw = devices_report[i].hw
      /\ (\A i \in DOMAIN all_data :
             Cardinality(HardwareOf(all_data[i].fqdn)) = 1)
         => /\ Len(merged_data) = Len(all_data)
            /\ \A i \in DOMAIN all_data :
                 Raw(merged_data[i]) = Raw(all_data[i])

(* two inventory rows, one with hardware and one without, both merged *)
C14_Witness ==
    /\ Merged
    /\ Len(all_data) = 2
    /\ Len(merged_data) = 2
    /\ merged_data[1].hw = NaN
    /\ merged_data[2].hw # NaN

(* the tenant's rendering raises inside create_tenant_sheets: openpyxl
   refuses the title of its first sheet, or a normalizer raises on one of
   its list fields *)
Failing(t) ==
    \/ ~valid_title(Slice(clean_tenant_name(variant, t), PrefixLen)
                    \o Suffix("MAIN"))
    \/ \E j \in DevicesOf(t) :
          \/ parse_json_data_raises(variant, merged_data[j].software)
          \/ parse_json_data_raises(variant, merged_data[j].vulnerabilities)

SheetOf(book, t, kind) ==
    {i \in Sheets(book, kind) : book[i].owner = t}

(* C15: when the rendering of a tenant raises inside create_tenant_sheets,
   the run still ends with a saved workbook that holds the navigation
   sheet and, for every other tenant, its MAIN sheet with one row per
   device and its SOFTWARE / VULNERABILITIES sheet when it has such items. *)
C15_OtherTenantsRendered ==
    (pc = "exit" /\ \E t \in Range(tenants) : Failing(t)) =>
      /\ saved # <<>>
      /\ Sheets(saved, "NAV") # {}
      /\ \A t \in Range(tenants) :
           ~Failing(t) =>
             /\ \E i \in SheetOf(saved, t, "MAIN") :
                  Cardinality(DataRows(saved[i])) = Cardinality(DevicesOf(t))
             /\ \A k \in {"SOFTWARE", "VULNERABILITIES"} :
                  HasItems(t, k) => SheetOf(saved, t, k) # {}

(* part_000: a tenant whose software text makes the normalizer raise after
   its MAIN sheet was created, followed by a tenant rendered in full *)
C15_Witness ==
    /\ pc = "exit"
    /\ Len(tenants) = 2
    /\ Failing(tenants[1])
    /\ SheetOf(saved, tenants[1], "MAIN") # {}
    /\ SheetOf(saved, tenants[1], "VULNERABILITIES") = {}
    /\ ~Failing(tenants[2])
    /\ SheetOf(saved, tenants[2], "SOFTWARE") # {}

(* the hardware columns the input lacks *)
missing_columns == required_columns \ env.hw_columns

(* C16: with both files present, a hardware table that lacks a required
   column or an inventory without the tenantName column makes process_data
   end in its except clause with an error naming the missing columns; no
   workbook is created and none is saved. *)
C16_AbortsWithoutOutput ==
    (/\ env.files = InputFiles
     /\ missing_columns # {} \/ ~env.tenantName
     /\ pc \notin {"main", "load"}) =>
      /\ pc \in {"except", "main_except", "exit"}
      /\ error.type # "none"
      /\ error.names = IF missing_columns # {} THEN missing_columns
                       ELSE {"tenantName"}
      /\ wb = <<>>
      /\ saved = <<>>

(* temp.py: CPU and RAM are missing, the run ended naming both, nothing
   was saved *)
C16_Witness ==
    /\ pc = "exit"
    /\ variant = "temp"
    /\ env.files = InputFiles
    /\ missing_columns = {"CPU", "RAM"}
    /\ error.names = {"CPU", "RAM"}
    /\ saved = <<>>

(* C17: a script run that hit a missing input file or a missing required
   column has printed a diagnostic with the stack trace and ends with a
   non-zero exit status, the exception having left the script. *)
C17_ScriptFailsOnError ==
    (pc = "exit" /\ error # NoError) =>
      /\ \E i \in DOMAIN stdout : stdout[i].traceback
      /\ status # "0"

----------------------------------------------------------------------------
(* The two pipelines side by side: the workbook a pipeline writes for given
   tables, as the composition of the steps of process_data. *)

RECURSIVE render_all(_, _, _, _)
render_all(v, book, merged, names) ==
    IF names = <<>> THEN book
    ELSE render_all(v, create_tenant_sheets(v, book, merged, Head(names)),
                    merged, Tail(names))

report(v, inventory, hardware) ==
    LET cleaned == prepare(v, merge(inventory, hardware))
        names == tenant_list(cleaned)
    IN create_navigation_sheet(v, render_all(v, <<>>, cleaned, names), names)

(* the data rows of a sheet: the device and the values written for it *)
LogicalRows(ws) ==
    LET IsData(row) == row.tag = "data"
        data == SelectSeq(ws.cells, IsData)
    IN [r \in DOMAIN data |-> <<data[r].key, data[r].item>>]

(* C18: for the same input tables part_000 and temp.py save workbooks with
   the same sheet names and, sheet by sheet, the same data rows, and their
   clean_tenant_name and parse_os_data agree on every tenant name and os
   cell of the inventory. *)
C18_PipelinesAgree ==
    pc = "done" =>
      \A v \in Variants :
        LET other == report(v, all_data, devices_report)
        IN /\ \A j \in DOMAIN all_data :
                /\ clean_tenant_name(v, all_data[j].tenantName)
                     = clean_tenant_name(variant, all_data[j].tenantName)
                /\ parse_os_data(v, all_data[j].os)
                     = parse_os_data(variant, all_data[j].os)
           /\ sheetnames(saved) = sheetnames(other)
           /\ \A i \in DOMAIN saved : \A j \in DOMAIN other :
                saved[i].title = other[j].title =>
                  LogicalRows(saved[i]) = LogicalRows(other[j])

----------------------------------------------------------------------------
(* Sub-fields that are present and null *)

(* C19: a sub-field that is present with the value null / None comes out
   as null, as a missing sub-field does: for the os mapping written as JSON
   and for every mapping element of a decoded software / vulnerabilities
   list. *)
C19_NullSubFieldStaysNull ==
    (pc = "returned" /\ variant \in Variants) =>
      /\ (arg.field = "os" /\ arg.value.kind = "coded"
          /\ arg.value.style = "json" /\ ~arg.value.lead) =>
            \A n \in DOMAIN OsKeys :
              (OsKeys[n] \in DOMAIN arg.value.f
               /\ arg.value.f[OsKeys[n]] = NaN) => ret[n] = NaN
      /\ DecodedList(arg) =>
            LET maps == Mappings(arg.value.dec.items)
            IN \A i \in DOMAIN maps : \A k \in DOMAIN maps[i].f :
                 maps[i].f[k] = NaN => ret[i][k] = NaN

----------------------------------------------------------------------------
(* Cleaning a cleaned name *)

(* C20: clean_tenant_name is idempotent: cleaning its own result gives that
   result again, so the name re-cleaned in create_tenant_sheets and in
   create_navigation_sheet is the partition key of the merged data. *)
C20_CleanIsIdempotent ==
    (pc = "returned" /\ arg # NaN) => clean_tenant_name(variant, ret) = ret

====
